---- MODULE Spec2Model ----
(* Model of the GIMP plug-in pl_hexgrid (src/pl_hexgrid/pl_hexgrid.py):   *)
(* the best-fit search (sampleSearch), the square packer (squareFill),    *)
(* the layout routine (buildHexagons) and the main procedure              *)
(* (hexaGrid.run) that strings them together.                             *)
(*                                                                        *)
(* Numbers.  The code computes in Python floats.  Every float it forms    *)
(* is either a rational or a number of the field Q(sqrt 3); the model     *)
(* computes them exactly, as records [p, q, d] standing for               *)
(* (p + q*sqrt(3)) / d with d > 0.  Ordering, rounding and truncation are *)
(* decided by integer arithmetic on these records.                        *)
EXTENDS Integers, Sequences, FiniteSets, TLC

VARIABLES
    pc,          \* position of the modelled procedure
    args,        \* arguments / dialog values of the current call
    sampleList,  \* list returned by sampleSearch
    fill,        \* triple returned by squareFill
    norm,        \* values run computes before the search (lines 305-347)
    build,       \* outcome of the last buildHexagons call
    image,       \* what the plug-in has added to the GIMP image so far
    curatedSampleList,  \* the samples of the sheet, by apothem
    iSample      \* loop index of the samples-sheet loop of run

vars == <<pc, args, sampleList, fill, norm, build, image,
          curatedSampleList, iSample>>

-----------------------------------------------------------------------------
(* Bounds of the model *)

MaxWidth == 10        \* largest hexagon width entered in the dialog
MaxCanvas == 12       \* largest canvas side handed to squareFill alone
MaxCount == 8         \* largest desired count handed to squareFill alone
MaxSamples == 3       \* largest samples count entered in the dialog

\* dialog values and image geometries the model draws from
LowerWidths == 4..MaxWidth          \* dialog range 4..10000
UpperWidths == 0..MaxWidth          \* dialog range 0..10000
SampleCounts == 1..MaxSamples       \* dialog range 1..25
StrokeWidths == {1, 2}              \* dialog range 1..50
SheetStrokeWidths == {1, 2, 9}      \* the same, for samples sheets
MarginPairs == {<<0, 0>>, <<-2, 3>>, <<25, 0>>, <<0, 25>>}  \* -500..1000
ImageSizes == {<<10, 10>>, <<30, 22>>}
LayerGeometries == {<<20, 16, 3, 5>>}

-----------------------------------------------------------------------------
(* Python numeric primitives on integers *)

\* int(n / d) for a float quotient: truncation toward zero (d > 0)
PyInt(n, d) == IF n >= 0 THEN n \div d ELSE -((-n) \div d)

\* math.floor(n / d), d > 0
PyFloor(n, d) == n \div d

\* math.ceil(n / d), d > 0
PyCeil(n, d) == -((-n) \div d)

\* variant: the greater of the two
PyMin_max(a, b) == IF a <= b THEN b ELSE a

\* min(a, b)
PyMin(a, b) == IF a <= b THEN a ELSE b

\* integer square root: the s >= 0 with s*s <= n < (s+1)*(s+1)
ISqrt(n) == CHOOSE s \in 0..n : s * s <= n /\ n < (s + 1) * (s + 1)

-----------------------------------------------------------------------------
(* Exact arithmetic in Q(sqrt 3): [p, q, d] is (p + q*sqrt(3)) / d, d > 0 *)

Q3(p, q, d) == [p |-> p, q |-> q, d |-> d]

\* sign of p + q*sqrt(3): -1, 0 or 1
SurdSign(p, q) ==
    IF p = 0 /\ q = 0 THEN 0
    ELSE IF p >= 0 /\ q >= 0 THEN 1
    ELSE IF p <= 0 /\ q <= 0 THEN -1
    ELSE IF p > 0 THEN (IF p * p > 3 * q * q THEN 1
                        ELSE IF p * p = 3 * q * q THEN 0 ELSE -1)
    ELSE (IF 3 * q * q > p * p THEN 1
          ELSE IF p * p = 3 * q * q THEN 0 ELSE -1)

QSign(x) == SurdSign(x.p, x.q)

\* x - n for an integer n
QSubInt(x, n) == Q3(x.p - n * x.d, x.q, x.d)

\* n * x for an integer n
QMulInt(n, x) == Q3(n * x.p, n * x.q, x.d)

\* x / n for an integer n > 0
QDivInt(x, n) == Q3(x.p, x.q, x.d * n)

\* x + n for an integer n
QAddInt(x, n) == Q3(x.p + n * x.d, x.q, x.d)

\* x + y
QAdd(x, y) == Q3(x.p * y.d + y.p * x.d, x.q * y.d + y.q * x.d, x.d * y.d)

\* -x
QNeg(x) == Q3(-x.p, -x.q, x.d)

\* abs(x)
QAbs(x) == IF QSign(x) < 0 THEN Q3(-x.p, -x.q, x.d) ELSE x

\* x < y, x <= y, x = y as real numbers
QLess(x, y) == SurdSign(x.p * y.d - y.p * x.d, x.q * y.d - y.q * x.d) < 0
QLeq(x, y)  == SurdSign(x.p * y.d - y.p * x.d, x.q * y.d - y.q * x.d) <= 0
QEq(x, y)   == SurdSign(x.p * y.d - y.p * x.d, x.q * y.d - y.q * x.d) = 0


\* 1.0 / x; the code raises ZeroDivisionError when x is zero
QInv(x) ==
    IF QSign(x) = 0 THEN [error |-> "ZeroDivisionError"]
    ELSE LET n == x.p * x.p - 3 * x.q * x.q
         IN  IF n > 0 THEN Q3(x.d * x.p, -(x.d * x.q), n)
             ELSE Q3(-(x.d * x.p), x.d * x.q, -n)

\* round(q * sqrt(3)) for an integer q >= 0 (never a tie: sqrt(3) is irrational)
RoundSurd(q) ==
    LET n == 3 * q * q
        s == ISqrt(n)
    IN  IF n - s * s > s THEN s + 1 ELSE s

-----------------------------------------------------------------------------
(* sampleSearch, byDelta, byApothem *)

byDelta(e) == e.delta

byApothem(e) == e.apothem

\* variant: delta keeps its sign (abs left out)
Candidate_signed(currentApothem) ==
    LET trueSeparation == Q3(0, currentApothem, 1)
        separation == RoundSurd(currentApothem)
        apoStretch == QDivInt(trueSeparation, separation)
        delta == QMulInt(2 * currentApothem, QSubInt(apoStretch, 1))
        radius == Q3(2 * separation, 0, 3)
        quality == QInv(delta)
    IN  [apothem |-> currentApothem, delta |-> delta,
         separation |-> separation, radius |-> radius,
         quality |-> quality, apoStretch |-> apoStretch]

\* body of the while loop of sampleSearch for one apothem
Candidate(currentApothem) ==
    LET trueSeparation == Q3(0, currentApothem, 1)
        separation == RoundSurd(currentApothem)
        apoStretch == QDivInt(trueSeparation, separation)
        delta == QAbs(QMulInt(2 * currentApothem, QSubInt(apoStretch, 1)))
        radius == Q3(2 * separation, 0, 3)
        quality == QInv(delta)
    IN  [apothem |-> currentApothem, delta |-> delta,
         separation |-> separation, radius |-> radius,
         quality |-> quality, apoStretch |-> apoStretch]

\* variant: the loop stops one apothem early (< for <=)
RECURSIVE SampleLoop_exclusive(_, _, _)
SampleLoop_exclusive(currentApothem, upperApothem, list) ==
    IF currentApothem < upperApothem
    THEN SampleLoop_exclusive(currentApothem + 1, upperApothem,
                              Append(list, Candidate(currentApothem)))
    ELSE list

\* the while loop: one candidate per apothem from currentApothem to upperApothem
RECURSIVE SampleLoop(_, _, _)
SampleLoop(currentApothem, upperApothem, list) ==
    IF currentApothem <= upperApothem
    THEN SampleLoop(currentApothem + 1, upperApothem,
                    Append(list, Candidate(currentApothem)))
    ELSE list

\* list.sort(key=byDelta): stable, ascending
RECURSIVE InsertByDelta(_, _)
InsertByDelta(e, sorted) ==
    IF sorted = <<>> THEN <<e>>
    ELSE LET last == sorted[Len(sorted)]
         IN  IF QLeq(byDelta(last), byDelta(e))
             THEN Append(sorted, e)
             ELSE Append(InsertByDelta(e, SubSeq(sorted, 1, Len(sorted) - 1)), last)

RECURSIVE SortByDeltaFrom(_, _, _)
SortByDeltaFrom(list, k, sorted) ==
    IF k > Len(list) THEN sorted
    ELSE SortByDeltaFrom(list, k + 1, InsertByDelta(list[k], sorted))

\* variant: the list is returned in apothem order, the sort left out
SortByDelta_unsorted(list) == list

SortByDelta(list) == SortByDeltaFrom(list, 1, <<>>)

\* list.sort(key=byApothem): stable, ascending
RECURSIVE InsertByApothem(_, _)
InsertByApothem(e, sorted) ==
    IF sorted = <<>> THEN <<e>>
    ELSE LET last == sorted[Len(sorted)]
         IN  IF byApothem(last) <= byApothem(e)
             THEN Append(sorted, e)
             ELSE Append(InsertByApothem(e, SubSeq(sorted, 1, Len(sorted) - 1)), last)

RECURSIVE SortByApothemFrom(_, _, _)
SortByApothemFrom(list, k, sorted) ==
    IF k > Len(list) THEN sorted
    ELSE SortByApothemFrom(list, k + 1, InsertByApothem(list[k], sorted))

\* variant: the samples left in the order of the search
SortByApothem_asis(list) == list

\* curatedSampleList.sort(key=byApothem)
SortByApothem(list) == SortByApothemFrom(list, 1, <<>>)

\* variant: the lower bound rounded up instead of truncated
lowerApothemOf_ceil(lowerWidth) == PyCeil(lowerWidth + 1, 2)

\* lowerApothem = int((lowerWidth + 1) / 2.0)
lowerApothemOf(lowerWidth) == PyInt(lowerWidth + 1, 2)

\* variant: the upper bound computed like the lower one
upperApothemOf_plusOne(upperWidth) == PyInt(upperWidth + 1, 2)

\* upperApothem = int(upperWidth / 2.0)
upperApothemOf(upperWidth) == PyInt(upperWidth, 2)

sampleSearch(lowerWidth, upperWidth) ==
    LET lowerApothem == lowerApothemOf(lowerWidth)
        upperApothem == upperApothemOf(upperWidth)
    IN  SortByDelta(SampleLoop(lowerApothem, upperApothem, <<>>))

-----------------------------------------------------------------------------
(* squareFill: biggest n squares that fit into an x by y image *)

\* math.ceil(math.sqrt(num / den)) for integers num >= 0, den > 0
CeilSqrt(num, den) ==
    CHOOSE r \in 0..num :
        /\ r * r * den >= num
        /\ r = 0 \/ (r - 1) * (r - 1) * den < num

\* while (nrows1 * ratio) < ncols1, with ratio = x / y
RECURSIVE FillHeightLoop(_, _, _, _)
FillHeightLoop(nrows1, x, y, n) ==
    LET ncols1 == PyCeil(n, nrows1)
    IN  IF nrows1 * x < ncols1 * y
        THEN FillHeightLoop(nrows1 + 1, x, y, n)
        ELSE [nrows |-> nrows1, ncols |-> ncols1]

\* variant: the rows rounded down (math.floor for math.ceil)
RECURSIVE FillWidthLoop_floor(_, _, _, _)
FillWidthLoop_floor(ncols2, x, y, n) ==
    LET nrows2 == PyFloor(n, ncols2)
    IN  IF ncols2 * y < nrows2 * x
        THEN FillWidthLoop_floor(ncols2 + 1, x, y, n)
        ELSE [nrows |-> nrows2, ncols |-> ncols2]

\* while ncols2 < (nrows2 * ratio), with ratio = x / y
RECURSIVE FillWidthLoop(_, _, _, _)
FillWidthLoop(ncols2, x, y, n) ==
    LET nrows2 == PyCeil(n, ncols2)
    IN  IF ncols2 * y < nrows2 * x
        THEN FillWidthLoop(ncols2 + 1, x, y, n)
        ELSE [nrows |-> nrows2, ncols |-> ncols2]

\* best option filling the whole height; its cell size is y / nrows
FillHeight(x, y, n) == FillHeightLoop(CeilSqrt(n * y, x), x, y, n)

\* best option filling the whole width; its cell size is x / ncols
FillWidth(x, y, n) == FillWidthLoop(CeilSqrt(n * x, y), x, y, n)

\* variant: the comparison before it was changed from "<"
FavorWidth_strict(x, y, opt1, opt2) == y * opt2.ncols < x * opt1.nrows

\* cellSize1 <= cellSize2, i.e. y / nrows1 <= x / ncols2
FavorWidth(x, y, opt1, opt2) == y * opt2.ncols <= x * opt1.nrows

squareFill(x, y, n) ==
    LET opt1 == FillHeight(x, y, n)
        opt2 == FillWidth(x, y, n)
    IN  IF FavorWidth(x, y, opt1, opt2)
        THEN [cellSize |-> PyInt(x, opt2.ncols),
              nrows |-> opt2.nrows, ncols |-> opt2.ncols]
        ELSE [cellSize |-> PyInt(y, opt1.nrows),
              nrows |-> opt1.nrows, ncols |-> opt1.ncols]

-----------------------------------------------------------------------------
(* buildHexagons: counting, layer, first centre and hexagon centres *)

\* 10 ** k as a number of the model, k in -1..2
Pow10(k) == IF k = -1 THEN Q3(1, 0, 10)
            ELSE IF k = 0 THEN Q3(1, 0, 1)
            ELSE IF k = 1 THEN Q3(10, 0, 1)
            ELSE Q3(100, 0, 1)

\* int(math.floor(math.log10(x))) for x > 0
FloorLog10(x) ==
    CHOOSE k \in -1..1 : QLeq(Pow10(k), x) /\ QLess(x, Pow10(k + 1))

\* math.log10(abs(x)) raises ValueError when x is zero
Log10Fails(x) == QSign(x) = 0

\* margins of a sample are drawn in by int(apothem * 1.5)
SampleMargin(margin, apothem, isSample) ==
    IF isSample THEN margin - PyInt(3 * apothem, 2) ELSE margin

\* countY = int((dimY - 2.0 * marginY - 1.0 / 3.0 * separation) / separation)
CountY(dimY, marginY, separation) ==
    PyInt(3 * (dimY - 2 * marginY) - separation, 3 * separation)

\* variant: the apothem of the staggered rows forgotten
CountX_nostagger(dimX, marginX, apothem, countY) ==
    PyInt(dimX - 2 * marginX, 2 * apothem)

\* countX, with one more apothem when the rows are staggered
CountX(dimX, marginX, apothem, countY) ==
    IF countY > 1
    THEN PyInt(dimX - 2 * marginX - apothem, 2 * apothem)
    ELSE PyInt(dimX - 2 * marginX, 2 * apothem)

\* variant: gives up only when both counts are zero
NoRoom_both(countX, countY) == countX = 0 /\ countY = 0

\* the test that makes buildHexagons give up
NoRoom(countX, countY) == countX = 0 \/ countY = 0

\* 2 * halfPixel, an integer
TwiceHalfPixel(halfPixel) == PyInt(2 * halfPixel.p, halfPixel.d)

\* round(2.0 / 3.0 * separation)
RoundTwoThirds(separation) == (4 * separation + 3) \div 6

\* size of the new layer, in the virtual axes
NewLayerSize(b, countX, countY, marginX, marginY) ==
    LET hp2 == TwiceHalfPixel(b.halfPixel)
        newLayerY == (countY - 1) * b.separation
                     + 2 * RoundTwoThirds(b.separation) + 2 * marginY + hp2
    IN  IF countY = 1 /\ ~b.isSample /\ b.cropLayer
        THEN [x |-> 2 * countX * b.apothem + 2 * marginX + hp2, y |-> newLayerY]
        ELSE IF countY > 1 /\ ~b.isSample /\ b.cropLayer
        THEN [x |-> (2 * countX + 1) * b.apothem + 2 * marginX + hp2,
              y |-> newLayerY]
        ELSE [x |-> b.dimX, y |-> b.dimY]

\* the layer inserted when createLayer is set, in image axes
NewLayer(b, countX, countY, marginX, marginY) ==
    LET size == NewLayerSize(b, countX, countY, marginX, marginY)
        hp2 == TwiceHalfPixel(b.halfPixel)
        layerOffsetX == PyFloor(b.dimX - size.x + hp2, 2)
        layerOffsetY == PyFloor(b.dimY - size.y + hp2, 2)
    IN  IF b.direction = "horizontal"
        THEN [kind |-> "hexagons", width |-> size.x, height |-> size.y,
              offX |-> layerOffsetX + b.offsetXprime,
              offY |-> layerOffsetY + b.offsetYprime]
        ELSE [kind |-> "hexagons", width |-> size.y, height |-> size.x,
              offX |-> layerOffsetY + b.offsetXprime,
              offY |-> layerOffsetX + b.offsetYprime]

\* coordinates of the first hexagon centre, in the virtual axes
PathOffset(b, countX, countY) ==
    LET offsetX == IF b.isSample /\ b.direction = "vertical"
                   THEN b.offsetYprime ELSE b.offsetXprime
        offsetY == IF b.isSample /\ b.direction = "vertical"
                   THEN b.offsetXprime ELSE b.offsetYprime
        floorY == PyFloor(b.dimY - b.separation * (countY - 1), 2)
    IN  IF countY = 1 /\ ~b.isSample
        THEN [x |-> QAddInt(b.halfPixel,
                       PyFloor(b.dimX - b.apothem * countX * 2, 2)
                       + b.baseLayerOffsetX),
              y |-> QAddInt(b.halfPixel, floorY + b.baseLayerOffsetY)]
        ELSE IF countY > 1 /\ ~b.isSample
        THEN [x |-> QAddInt(b.halfPixel,
                       PyFloor(b.dimX - b.apothem * (countX * 2 + 1), 2)
                       + b.baseLayerOffsetX),
              y |-> QAddInt(b.halfPixel, floorY + b.baseLayerOffsetY)]
        ELSE [x |-> QAddInt(b.halfPixel,
                       PyFloor(b.dimX - b.apothem * (countX * 2 + 1), 2)
                       + offsetX + b.baseLayerOffsetX),
              y |-> QAddInt(b.halfPixel, floorY + offsetY + b.baseLayerOffsetY)]

\* variant: the centre left in the virtual axes
Center_noswap(b, pathOffset, i, j) ==
    [x |-> QAddInt(pathOffset.x, 2 * b.apothem * j + b.apothem * ((i % 2) + 1)),
     y |-> QAddInt(pathOffset.y, i * b.separation)]

\* centre of the hexagon of row i, column j, in image axes
Center(b, pathOffset, i, j) ==
    LET centerYprime == QAddInt(pathOffset.y, i * b.separation)
        startX == b.apothem * ((i % 2) + 1)
        centerXprime == QAddInt(pathOffset.x, 2 * b.apothem * j + startX)
    IN  IF b.direction = "horizontal"
        THEN [x |-> centerXprime, y |-> centerYprime]
        ELSE [x |-> centerYprime, y |-> centerXprime]

\* variant: the vertical hexagon keeps the horizontal vectors
Vects_noswap(direction, apothem, radius) ==
    LET zero == Q3(0, 0, 1)
        a == Q3(apothem, 0, 1)
        half == QDivInt(radius, 2)
    IN  <<[x |-> zero, y |-> QNeg(radius)],
          [x |-> a, y |-> QNeg(half)],
          [x |-> a, y |-> half],
          [x |-> zero, y |-> radius],
          [x |-> QNeg(a), y |-> half],
          [x |-> QNeg(a), y |-> QNeg(half)]>>

\* vectA .. vectF: positions of the six vertices from the centre
Vects(direction, apothem, radius) ==
    LET zero == Q3(0, 0, 1)
        a == Q3(apothem, 0, 1)
        half == QDivInt(radius, 2)
    IN  IF direction = "horizontal"
        THEN <<[x |-> zero, y |-> QNeg(radius)],
               [x |-> a, y |-> QNeg(half)],
               [x |-> a, y |-> half],
               [x |-> zero, y |-> radius],
               [x |-> QNeg(a), y |-> half],
               [x |-> QNeg(a), y |-> QNeg(half)]>>
        ELSE <<[x |-> QNeg(radius), y |-> zero],
               [x |-> QNeg(half), y |-> a],
               [x |-> half, y |-> a],
               [x |-> radius, y |-> zero],
               [x |-> half, y |-> QNeg(a)],
               [x |-> QNeg(half), y |-> QNeg(a)]>>

\* variant: the points handed over from vectF back to vectA
StrokePoints_backwards(center, vects) ==
    [v \in 1..6 |-> [x |-> QAdd(center.x, vects[7 - v].x),
                     y |-> QAdd(center.y, vects[7 - v].y)]]

\* the points of one stroke: centre + vectA .. centre + vectF (the code hands
\* each of them over three times, as anchor and as both control points), as
\* the numbers the sums stand for; EmittedPoints gives the doubles
StrokePoints(center, vects) ==
    [v \in 1..6 |-> [x |-> QAdd(center.x, vects[v].x),
                     y |-> QAdd(center.y, vects[v].y)]]

\* The coordinates handed to stroke_new_from_points are Python floats (IEEE
\* doubles, 53 significant bits).  A double of this program is a multiple of
\* 1/6 plus a rounding error of some thirds of a unit in the last place; it is
\* written [n, err, k] and stands for n/6 + err/(3 * 2^k), with err = 0 and
\* k = 0 when the double is the multiple of 1/6 itself.

RECURSIVE Pow2(_)
Pow2(n) == IF n <= 0 THEN 1 ELSE 2 * Pow2(n - 1)

\* 2^g mod 3
Pow2Mod3(g) == IF g % 2 = 0 THEN 1 ELSE 2

\* the e with 2^e <= num/den < 2^(e+1), num and den positive
RECURSIVE Log2Floor(_, _)
Log2Floor(num, den) ==
    IF num >= 2 * den THEN Log2Floor(num, 2 * den) + 1
    ELSE IF num < den THEN Log2Floor(2 * num, den) - 1
    ELSE 0

\* num/den rounded to the nearest integer r, a tie going to the r that makes
\* parity + r even (round-half-to-even of the significand)
RoundHalfEven(num, den, parity) ==
    LET fl == num \div den
        twice == 2 * (num - fl * den)
    IN  IF twice < den THEN fl
        ELSE IF twice > den THEN fl + 1
        ELSE IF (parity + fl) % 2 = 0 THEN fl ELSE fl + 1

\* the double of a whole number of halves (exactly representable)
DoubleOfExact(c) == [n |-> (6 * c.p) \div c.d, err |-> 0, k |-> 0]

\* s / 3.0 for a positive integer s
DoubleThird(s) ==
    IF s % 3 = 0 THEN [n |-> 2 * s, err |-> 0, k |-> 0]
    ELSE LET g == 52 - Log2Floor(s, 3)
             rho == ((s % 3) * Pow2Mod3(g)) % 3
         IN  [n |-> 2 * s, err |-> IF rho = 1 THEN -1 ELSE 1, k |-> g]

\* x * 2.0 and x / 2.0 are exact
DoubleTwice(x) ==
    IF x.err = 0 THEN [x EXCEPT !.n = 2 * @]
    ELSE [n |-> 2 * x.n, err |-> x.err, k |-> x.k - 1]

DoubleHalf(x) ==
    IF x.err = 0 THEN [x EXCEPT !.n = @ \div 2]
    ELSE [n |-> x.n \div 2, err |-> x.err, k |-> x.k + 1]

DoubleNeg(x) == [n |-> -x.n, err |-> -x.err, k |-> x.k]

\* radius = separation / 3.0 * 2.0 (sampleSearch), found again from the
\* radius 2 * separation / 3 of the call
DoubleRadius(radius) == DoubleTwice(DoubleThird((3 * radius.p) \div (2 * radius.d)))

\* c + v for a whole number of halves c and a double v, rounded to nearest
DoubleAdd(c, v) ==
    LET c6 == (6 * c.p) \div c.d
        q6 == v.n + c6
        sg == IF q6 > 0 THEN 1 ELSE -1
        mag == IF q6 > 0 THEN q6 ELSE -q6
        g == 52 - Log2Floor(mag, 6)
        rho == ((mag % 3) * Pow2Mod3(g - 1)) % 3
        r == IF g >= v.k
             THEN RoundHalfEven(rho + sg * v.err * Pow2(g - v.k), 3, rho % 2)
             ELSE RoundHalfEven(rho * Pow2(v.k - g) + sg * v.err,
                                3 * Pow2(v.k - g), rho % 2)
        e2 == 3 * r - rho
    IN  IF v.err = 0 THEN [n |-> q6, err |-> 0, k |-> 0]
        ELSE IF e2 = 0 THEN [n |-> q6, err |-> 0, k |-> 0]
        ELSE [n |-> q6, err |-> sg * e2, k |-> g]

\* variant: vectB, vectC, vectE and vectF with the whole radius
DoubleVects_whole(direction, apothem, radius) ==
    LET zero == DoubleOfExact(Q3(0, 0, 1))
        a == DoubleOfExact(Q3(apothem, 0, 1))
        r == DoubleRadius(radius)
    IN  IF direction = "horizontal"
        THEN <<[x |-> zero, y |-> DoubleNeg(r)],
               [x |-> a, y |-> DoubleNeg(r)],
               [x |-> a, y |-> r],
               [x |-> zero, y |-> r],
               [x |-> DoubleNeg(a), y |-> r],
               [x |-> DoubleNeg(a), y |-> DoubleNeg(r)]>>
        ELSE <<[x |-> DoubleNeg(r), y |-> zero],
               [x |-> DoubleNeg(r), y |-> a],
               [x |-> r, y |-> a],
               [x |-> r, y |-> zero],
               [x |-> r, y |-> DoubleNeg(a)],
               [x |-> DoubleNeg(r), y |-> DoubleNeg(a)]>>

\* vectA .. vectF as the doubles the code computes
DoubleVects(direction, apothem, radius) ==
    LET zero == DoubleOfExact(Q3(0, 0, 1))
        a == DoubleOfExact(Q3(apothem, 0, 1))
        r == DoubleRadius(radius)
        half == DoubleHalf(r)
    IN  IF direction = "horizontal"
        THEN <<[x |-> zero, y |-> DoubleNeg(r)],
               [x |-> a, y |-> DoubleNeg(half)],
               [x |-> a, y |-> half],
               [x |-> zero, y |-> r],
               [x |-> DoubleNeg(a), y |-> half],
               [x |-> DoubleNeg(a), y |-> DoubleNeg(half)]>>
        ELSE <<[x |-> DoubleNeg(r), y |-> zero],
               [x |-> DoubleNeg(half), y |-> a],
               [x |-> half, y |-> a],
               [x |-> r, y |-> zero],
               [x |-> half, y |-> DoubleNeg(a)],
               [x |-> DoubleNeg(half), y |-> DoubleNeg(a)]>>

\* the doubles centerX + vect[0], centerY + vect[1] of one stroke
EmittedPoints(center, dvects) ==
    [v \in 1..6 |-> [x |-> DoubleAdd(center.x, dvects[v].x),
                     y |-> DoubleAdd(center.y, dvects[v].y)]]

\* the drawing loops (while i < countY, while j < countX): the centres of the
\* strokes added to the path, row after row
DrawLoop(b, pathOffset, countX, countY) ==
    IF countX <= 0 \/ countY <= 0 THEN <<>>
    ELSE [k \in 1..(countX * countY) |->
            Center(b, pathOffset, (k - 1) \div countX, (k - 1) % countX)]

\* name given to the path and the layer (numbers only, text left out)
VectorName(b, dApoStretch, rndStretch) ==
    [wdth |-> 2 * b.apothem,
     sign |-> IF QSign(dApoStretch) < 0 THEN "-" ELSE "+",
     digits |-> rndStretch,
     grid |-> IF b.direction = "horizontal"
              THEN <<b.apothem, b.separation>>
              ELSE <<b.separation, b.apothem>>]

\* values of a call that returned before computing them
NoName == [wdth |-> 0]

NoLayer == [kind |-> "none"]

NoOffset == [x |-> Q3(0, 0, 1), y |-> Q3(0, 0, 1)]

\* the image grid as long as the plug-in has not set it
GridUnset == [spacing |-> <<>>, offset |-> <<>>]

\* one call of buildHexagons with the arguments b: what it returns and computes
buildHexagons(b) ==
    LET marginX == SampleMargin(b.marginX, b.apothem, b.isSample)
        marginY == SampleMargin(b.marginY, b.apothem, b.isSample)
        countY == CountY(b.dimY, marginY, b.separation)
        countX == CountX(b.dimX, marginX, b.apothem, countY)
        dApoStretch == QMulInt(100, QSubInt(b.apoStretch, 1))
        rndStretch == 0 - FloorLog10(QAbs(dApoStretch))
        pathOffset == PathOffset(b, countX, countY)
        vects == Vects(b.direction, b.apothem, b.radius)
        hexagons == DrawLoop(b, pathOffset, countX, countY)
        none == [returned |-> "False", countX |-> countX, countY |-> countY,
                 apothem |-> b.apothem, separation |-> b.separation,
                 isSample |-> b.isSample, direction |-> b.direction,
                 name |-> NoName, layer |-> NoLayer, pathOffset |-> NoOffset,
                 hexagons |-> <<>>, call |-> b, vects |-> <<>>,
                 strokes |-> <<>>, emitted |-> <<>>]
    IN  IF NoRoom(countX, countY) THEN none
        ELSE IF Log10Fails(dApoStretch)
        THEN [none EXCEPT !.returned = "ValueError"]
        ELSE [returned |-> "None", countX |-> countX, countY |-> countY,
              apothem |-> b.apothem, separation |-> b.separation,
              isSample |-> b.isSample, direction |-> b.direction,
              name |-> VectorName(b, dApoStretch, rndStretch),
              layer |-> IF b.createLayer
                        THEN NewLayer(b, countX, countY, marginX, marginY)
                        ELSE NoLayer,
              pathOffset |-> pathOffset,
              hexagons |-> hexagons, call |-> b, vects |-> vects,
              strokes |-> [k \in 1..Len(hexagons) |->
                             StrokePoints(hexagons[k], vects)],
              emitted |-> [k \in 1..Len(hexagons) |->
                             EmittedPoints(hexagons[k],
                                DoubleVects(b.direction, b.apothem, b.radius))]]

\* what one call of buildHexagons leaves in the image
ImageAfterBuild(img, b, r) ==
    IF r.returned = "False"
    THEN [img EXCEPT !.messages = @ + 1]
    ELSE IF r.returned = "ValueError" THEN img
    ELSE LET withLayer == IF b.createLayer
                          THEN [img EXCEPT !.layers = Append(@, r.layer)]
                          ELSE img
             path == [name |-> r.name, strokes |-> Len(r.hexagons),
                      visible |-> ~b.strokePath]
             withStroke == IF b.strokePath
                           THEN [withLayer EXCEPT !.stroked =
                                   Append(@, [on |-> IF b.createLayer
                                                     THEN "newLayer"
                                                     ELSE "calqueSource",
                                              strokes |-> Len(r.hexagons),
                                              lineWidth |-> b.strokeWidth])]
                           ELSE withLayer
             withPath == IF b.keepPaths
                         THEN [withStroke EXCEPT !.paths = Append(@, path)]
                         ELSE withStroke
             withGrid == IF b.adjustGrid
                         THEN [withPath EXCEPT !.grid =
                                 IF b.direction = "horizontal"
                                 THEN [spacing |-> <<b.apothem, b.separation>>,
                                       offset |-> <<r.pathOffset.x, r.pathOffset.y>>]
                                 ELSE [spacing |-> <<b.separation, b.apothem>>,
                                       offset |-> <<r.pathOffset.y, r.pathOffset.x>>]]
                         ELSE withPath
         IN  IF b.isSample
             THEN [withGrid EXCEPT !.texts =
                     Append(@, [width |-> 2 * b.apothem,
                                sign |-> r.name.sign,
                                x |-> b.offsetXprime + PyInt(ISqrt(b.dimX), 2)
                                      + b.strokeWidth,
                                y |-> b.offsetYprime + PyInt(ISqrt(b.dimX), 2)
                                      + b.strokeWidth])]
             ELSE withGrid

-----------------------------------------------------------------------------
(* State of the image and blank values *)

EmptyImage ==
    [layers |-> <<>>, paths |-> <<>>, stroked |-> <<>>, texts |-> <<>>,
     grid |-> GridUnset, messages |-> 0, merged |-> FALSE]

NoFill == [cellSize |-> 0, nrows |-> 0, ncols |-> 0]

NoBuild == [returned |-> "not called"]

NoNorm == [createSampleSheet |-> FALSE]

\* the dialog's default values (do_create_procedure)
DefaultConfig ==
    [createSamplesChoice |-> "make hexgrid", sampleCount |-> MaxSamples,
     orientation |-> "horizontal", lowerWidth |-> 4, upperWidth |-> MaxWidth,
     strokeWidth |-> 2, marginXprime |-> 0, marginYprime |-> 0,
     createLayer |-> TRUE, strokePath |-> TRUE, keepPaths |-> FALSE,
     adjustGrid |-> FALSE,
     imageWidth |-> 30, imageHeight |-> 22,
     layerWidth |-> 30, layerHeight |-> 22, layerOffX |-> 0, layerOffY |-> 0,
     drawables |-> 1]

\* dialog values for a hexagonal grid, drawn on layers of the given geometries
GridConfigsOn(cl, geometries) ==
    {[DefaultConfig EXCEPT
        !.orientation = o, !.lowerWidth = lw, !.upperWidth = uw,
        !.strokeWidth = sw, !.marginXprime = mg[1], !.marginYprime = mg[2],
        !.createLayer = cl, !.strokePath = sp, !.keepPaths = kp,
        !.adjustGrid = ag, !.imageWidth = im[1], !.imageHeight = im[2],
        !.layerWidth = lg[1], !.layerHeight = lg[2],
        !.layerOffX = lg[3], !.layerOffY = lg[4]] :
     o \in {"horizontal", "vertical"}, lw \in LowerWidths, uw \in UpperWidths,
     sw \in StrokeWidths, mg \in MarginPairs,
     sp \in BOOLEAN, kp \in BOOLEAN, ag \in BOOLEAN,
     im \in ImageSizes, lg \in geometries}

\* the geometry of the active layer matters only when no layer is created
GridConfigs ==
    GridConfigsOn(TRUE, {<<30, 22, 0, 0>>})
        \cup GridConfigsOn(FALSE, LayerGeometries)

\* dialog values for a samples sheet (layer, margins and flags are overridden)
SheetConfigs ==
    {[DefaultConfig EXCEPT
        !.createSamplesChoice = "make samples", !.sampleCount = sc,
        !.orientation = o, !.lowerWidth = lw, !.upperWidth = uw,
        !.strokeWidth = sw, !.imageWidth = im[1], !.imageHeight = im[2]] :
     sc \in SampleCounts, o \in {"horizontal", "vertical"},
     lw \in LowerWidths, uw \in UpperWidths, sw \in SheetStrokeWidths,
     im \in ImageSizes}

\* a call with a number of drawables other than one
BadDrawableConfigs == {[DefaultConfig EXCEPT !.drawables = n] : n \in {0, 2}}

-----------------------------------------------------------------------------
(* hexaGrid.run *)

\* variant: the parity test turned round
HalfPixelOf_even(strokeWidth) ==
    IF strokeWidth % 2 = 0 THEN Q3(1, 0, 2) ELSE Q3(0, 0, 1)

\* lines 343-347: half a pixel for an odd stroke width
HalfPixelOf(strokeWidth) ==
    IF strokeWidth % 2 = 1 THEN Q3(1, 0, 2) ELSE Q3(0, 0, 1)

\* lines 292-390: margins, width bounds, samples count, half pixel, search, canvas
Prepare(c) ==
    LET createSampleSheet == c.createSamplesChoice # "make hexgrid"
        marginXprime == c.marginXprime + c.strokeWidth \div 2
        marginYprime == c.marginYprime + c.strokeWidth \div 2
        direction == IF c.orientation = "horizontal"
                     THEN "horizontal" ELSE "vertical"
        lowerRounded == PyCeil(c.lowerWidth, 2) * 2
        upperRounded == PyFloor(c.upperWidth, 2) * 2
        upperSet == IF upperRounded = 0 THEN lowerRounded ELSE upperRounded
        swap == upperSet < lowerRounded
        lowerWidth == IF swap THEN upperSet ELSE lowerRounded
        upperWidth == IF swap THEN lowerRounded ELSE upperSet
        onLayer == ~c.createLayer /\ ~createSampleSheet
        imageXprime == IF onLayer THEN c.layerWidth ELSE c.imageWidth
        imageYprime == IF onLayer THEN c.layerHeight ELSE c.imageHeight
        baseXprime == IF onLayer THEN c.layerOffX ELSE 0
        baseYprime == IF onLayer THEN c.layerOffY ELSE 0
        horizontal == direction = "horizontal"
    IN  [createSampleSheet |-> createSampleSheet,
         direction |-> direction,
         marginX |-> IF horizontal THEN marginXprime ELSE marginYprime,
         marginY |-> IF horizontal THEN marginYprime ELSE marginXprime,
         lowerWidth |-> lowerWidth, upperWidth |-> upperWidth,
         sampleCount |-> PyMin((upperWidth - lowerWidth) \div 2 + 1,
                               c.sampleCount),
         halfPixel |-> HalfPixelOf(c.strokeWidth),
         imageXprime |-> imageXprime, imageYprime |-> imageYprime,
         imageX |-> IF horizontal THEN imageXprime ELSE imageYprime,
         imageY |-> IF horizontal THEN imageYprime ELSE imageXprime,
         baseLayerOffsetX |-> IF horizontal THEN baseXprime ELSE baseYprime,
         baseLayerOffsetY |-> IF horizontal THEN baseYprime ELSE baseXprime,
         createLayer |-> c.createLayer, strokePath |-> c.strokePath,
         keepPaths |-> c.keepPaths, adjustGrid |-> c.adjustGrid,
         cropLayer |-> FALSE]

\* arguments of a buildHexagons call made by run
BuildArgs(c, n, thisElement, dimX, dimY, offsetX, offsetY, isSample) ==
    [dimX |-> dimX, dimY |-> dimY,
     baseLayerOffsetX |-> n.baseLayerOffsetX,
     baseLayerOffsetY |-> n.baseLayerOffsetY,
     offsetXprime |-> offsetX, offsetYprime |-> offsetY,
     marginX |-> n.marginX, marginY |-> n.marginY,
     direction |-> n.direction,
     apothem |-> thisElement.apothem, radius |-> thisElement.radius,
     separation |-> thisElement.separation, halfPixel |-> n.halfPixel,
     quality |-> thisElement.quality, apoStretch |-> thisElement.apoStretch,
     createLayer |-> n.createLayer, cropLayer |-> n.cropLayer,
     strokePath |-> n.strokePath, strokeWidth |-> c.strokeWidth,
     adjustGrid |-> n.adjustGrid, isSample |-> isSample,
     keepPaths |-> n.keepPaths]

\* run is called with a number of drawables other than one: CALLING_ERROR
RunCallingError ==
    /\ pc = "dialog"
    /\ args.drawables # 1
    /\ pc' = "CALLING_ERROR"
    /\ UNCHANGED <<args, sampleList, fill, norm, build, image,
                   curatedSampleList, iSample>>

\* run, lines 292-390
RunPrepare ==
    /\ pc = "dialog"
    /\ args.drawables = 1
    /\ norm' = Prepare(args)
    /\ sampleList' = sampleSearch(norm'.lowerWidth, norm'.upperWidth)
    /\ pc' = "create"
    /\ UNCHANGED <<args, fill, build, image, curatedSampleList, iSample>>

\* run, lines 479-498: the hexagonal grid with the first sample of the list
RunHexgrid ==
    /\ pc = "create"
    /\ ~norm.createSampleSheet
    /\ IF sampleList = <<>>
       THEN /\ pc' = "IndexError"
            /\ UNCHANGED <<build, image>>
       ELSE LET thisElement == sampleList[1]
                b == BuildArgs(args, norm, thisElement, norm.imageX,
                               norm.imageY, 0, 0, FALSE)
                r == buildHexagons(b)
            IN  /\ build' = r
                /\ image' = ImageAfterBuild(image, b, r)
                /\ pc' = "done"
    /\ UNCHANGED <<args, sampleList, fill, norm, curatedSampleList, iSample>>

\* run, lines 402-435: group, squareFill, background, the samples by apothem
RunSheetBegin ==
    /\ pc = "create"
    /\ norm.createSampleSheet
    /\ LET f == squareFill(norm.imageXprime, norm.imageYprime,
                           norm.sampleCount)
       IN  /\ fill' = f
           /\ image' = [image EXCEPT !.layers =
                          <<[kind |-> "group", width |-> 0, height |-> 0,
                             offX |-> 0, offY |-> 0],
                            [kind |-> "background",
                             width |-> f.cellSize * f.ncols,
                             height |-> f.cellSize * f.nrows,
                             offX |-> 0, offY |-> 0]>>]
    /\ norm' = [norm EXCEPT !.createLayer = TRUE, !.adjustGrid = FALSE,
                            !.strokePath = TRUE, !.keepPaths = FALSE,
                            !.marginX = args.strokeWidth \div 2,
                            !.marginY = args.strokeWidth \div 2]
    /\ IF norm.sampleCount > Len(sampleList)
       THEN /\ pc' = "IndexError"
            /\ UNCHANGED curatedSampleList
       ELSE /\ curatedSampleList' =
                  SortByApothem(SubSeq(sampleList, 1, norm.sampleCount))
            /\ pc' = "samples"
    /\ iSample' = 0
    /\ UNCHANGED <<args, sampleList, build>>

\* run, lines 441-457: one sample of the sheet
RunSheetSample ==
    /\ pc = "samples"
    /\ iSample < Len(curatedSampleList)
    /\ LET thisElement == curatedSampleList[iSample + 1]
           offsetX == (iSample % fill.ncols) * fill.cellSize
           offsetY == (iSample \div fill.ncols) * fill.cellSize
           b == BuildArgs(args, norm, thisElement, fill.cellSize,
                          fill.cellSize, offsetX, offsetY, TRUE)
           r == buildHexagons(b)
       IN  /\ build' = r
           /\ image' = ImageAfterBuild(image, b, r)
    /\ iSample' = iSample + 1
    /\ UNCHANGED <<pc, args, sampleList, fill, norm, curatedSampleList>>

\* run, lines 461-475: merge the group and decorate it with a grid
RunSheetEnd ==
    /\ pc = "samples"
    /\ iSample = Len(curatedSampleList)
    /\ image' = [image EXCEPT !.merged = TRUE]
    /\ pc' = "done"
    /\ UNCHANGED <<args, sampleList, fill, norm, build, curatedSampleList,
                   iSample>>

Init ==
    /\ pc = "dialog"
    /\ args \in GridConfigs \cup SheetConfigs \cup BadDrawableConfigs
    /\ sampleList = <<>>
    /\ fill = NoFill
    /\ norm = NoNorm
    /\ build = NoBuild
    /\ image = EmptyImage
    /\ curatedSampleList = <<>>
    /\ iSample = 0

Next ==
    \/ RunCallingError
    \/ RunPrepare
    \/ RunHexgrid
    \/ RunSheetBegin
    \/ RunSheetSample
    \/ RunSheetEnd

Spec == Init /\ [][Next]_vars

-----------------------------------------------------------------------------
(* sampleSearch called on its own, with any pair of widths *)

CallSampleSearch ==
    /\ pc = "call sampleSearch"
    /\ sampleList' = sampleSearch(args.lowerWidth, args.upperWidth)
    /\ pc' = "returned"
    /\ UNCHANGED <<args, fill, norm, build, image, curatedSampleList, iSample>>

InitSearch ==
    /\ pc = "call sampleSearch"
    /\ args \in [lowerWidth : 1..MaxWidth, upperWidth : 1..MaxWidth]
    /\ sampleList = <<>>
    /\ fill = NoFill
    /\ norm = NoNorm
    /\ build = NoBuild
    /\ image = EmptyImage
    /\ curatedSampleList = <<>>
    /\ iSample = 0

NextSearch == CallSampleSearch

SpecSearch == InitSearch /\ [][NextSearch]_vars

-----------------------------------------------------------------------------
(* squareFill called on its own, with any canvas and count *)

CallSquareFill ==
    /\ pc = "call squareFill"
    /\ fill' = squareFill(args.x, args.y, args.n)
    /\ pc' = "returned"
    /\ UNCHANGED <<args, sampleList, norm, build, image, curatedSampleList,
                   iSample>>

InitFill ==
    /\ pc = "call squareFill"
    /\ args \in [x : 1..MaxCanvas, y : 1..MaxCanvas, n : 1..MaxCount]
    /\ sampleList = <<>>
    /\ fill = NoFill
    /\ norm = NoNorm
    /\ build = NoBuild
    /\ image = EmptyImage
    /\ curatedSampleList = <<>>
    /\ iSample = 0

NextFill == CallSquareFill

SpecFill == InitFill /\ [][NextFill]_vars

-----------------------------------------------------------------------------
(* buildHexagons called on its own, also with cropLayer set (run never sets it) *)

\* arguments of a direct call: a candidate of the search on a canvas
DirectBuildArgs ==
    {[dimX |-> im[1], dimY |-> im[2],
      baseLayerOffsetX |-> 0, baseLayerOffsetY |-> 0,
      offsetXprime |-> 0, offsetYprime |-> 0,
      marginX |-> mg[1], marginY |-> mg[2], direction |-> d,
      apothem |-> a, radius |-> Candidate(a).radius,
      separation |-> Candidate(a).separation, halfPixel |-> HalfPixelOf(sw),
      quality |-> Candidate(a).quality, apoStretch |-> Candidate(a).apoStretch,
      createLayer |-> TRUE, cropLayer |-> crop, strokePath |-> TRUE,
      strokeWidth |-> sw, adjustGrid |-> FALSE, isSample |-> FALSE,
      keepPaths |-> FALSE] :
     im \in ImageSizes, mg \in {<<0, 0>>, <<1, 2>>, <<-2, 3>>},
     d \in {"horizontal", "vertical"}, a \in 1..(MaxWidth \div 2),
     sw \in StrokeWidths, crop \in BOOLEAN}

CallBuildHexagons ==
    /\ pc = "call buildHexagons"
    /\ build' = buildHexagons(args)
    /\ image' = ImageAfterBuild(image, args, build')
    /\ pc' = "returned"
    /\ UNCHANGED <<args, sampleList, fill, norm, curatedSampleList, iSample>>

InitBuild ==
    /\ pc = "call buildHexagons"
    /\ args \in DirectBuildArgs
    /\ sampleList = <<>>
    /\ fill = NoFill
    /\ norm = NoNorm
    /\ build = NoBuild
    /\ image = EmptyImage
    /\ curatedSampleList = <<>>
    /\ iSample = 0

NextBuild == CallBuildHexagons

SpecBuild == InitBuild /\ [][NextBuild]_vars

-----------------------------------------------------------------------------
(* Properties of the search *)

\* misalignment of the apothem a, recomputed from its definition:
\* |2 * a * (a * sqrt(3) / s - 1)| with s the integer nearest to a * sqrt(3)
Misalignment(a) ==
    LET s == CHOOSE t \in 0..(2 * a) :
                 /\ (2 * t - 1) * (2 * t - 1) < 12 * a * a
                 /\ 12 * a * a < (2 * t + 1) * (2 * t + 1)
    IN  QAbs(Q3(-(2 * a * s), 2 * a * a, s))

\* the apothem of lo..hi a scan of the whole range finds to be the best
BruteForceBest(lo, hi) ==
    CHOOSE a \in lo..hi :
        \A other \in lo..hi : QLeq(Misalignment(a), Misalignment(other))

SortedByDelta(list) ==
    \A i, j \in 1..Len(list) : i < j => QLeq(list[i].delta, list[j].delta)

Searched == pc \in {"create", "samples", "done"}

HexgridDrawn == pc = "done" /\ ~norm.createSampleSheet

\* apothems whose width lies in the range run hands to the search
RequestedApothems == (norm.lowerWidth \div 2)..(norm.upperWidth \div 2)

\* C1: the list of the search is sorted by ascending misalignment, its first
\* element is no worse than any apothem of the range, and the hexagonal grid
\* is built with that element, the one a scan of the whole range finds best.
C1_BestFirst ==
    /\ Searched =>
          /\ SortedByDelta(sampleList)
          /\ \A a \in RequestedApothems :
                QLeq(sampleList[1].delta, Misalignment(a))
    /\ HexgridDrawn =>
          /\ build.apothem = sampleList[1].apothem
          /\ build.apothem = BruteForceBest(norm.lowerWidth \div 2,
                                            norm.upperWidth \div 2)

\* a grid drawn with a best apothem strictly inside a range of four or more
C1_Witness ==
    /\ HexgridDrawn
    /\ build.returned = "None"
    /\ Len(sampleList) >= 4
    /\ build.apothem > norm.lowerWidth \div 2
    /\ build.apothem < norm.upperWidth \div 2

\* C2: sampleSearch returns one candidate for each apothem from lowerApothem
\* to upperApothem, none skipped or repeated, and the empty list exactly when
\* upperApothem < lowerApothem.
C2_OnePerApothem ==
    pc = "returned" =>
        LET lowerApothem == (args.lowerWidth + 1) \div 2
            upperApothem == args.upperWidth \div 2
        IN  /\ \A a \in lowerApothem..upperApothem :
                  Cardinality({i \in 1..Len(sampleList) :
                                  sampleList[i].apothem = a}) = 1
            /\ \A i \in 1..Len(sampleList) :
                  sampleList[i].apothem \in lowerApothem..upperApothem
            /\ (sampleList = <<>>) <=> (upperApothem < lowerApothem)

\* a search that returned three or more candidates
C2_Witness ==
    /\ pc = "returned"
    /\ Len(sampleList) >= 3
    /\ args.upperWidth \div 2 - (args.lowerWidth + 1) \div 2 = Len(sampleList) - 1

\* C3: a search for one width returns one candidate of that width: when the
\* bounds handed to the search are the same even width w, the list holds one
\* candidate with 2 * apothem = w; a maximal width of 0 gives one candidate
\* whose width is the minimal width rounded up to an even number.
C3_ExactWidth ==
    Searched =>
        /\ norm.lowerWidth = norm.upperWidth =>
              /\ Len(sampleList) = 1
              /\ 2 * sampleList[1].apothem = norm.lowerWidth
        /\ args.upperWidth = 0 =>
              /\ Len(sampleList) = 1
              /\ 2 * sampleList[1].apothem = 2 * ((args.lowerWidth + 1) \div 2)

\* an odd minimal width with maximal width 0 has been searched
C3_Witness ==
    /\ Searched
    /\ args.upperWidth = 0
    /\ args.lowerWidth % 2 = 1
    /\ Len(sampleList) = 1
    /\ 2 * sampleList[1].apothem = args.lowerWidth + 1

\* the apothems of the returned list
ListedApothems == {sampleList[i].apothem : i \in 1..Len(sampleList)}

\* C4 as stated: the bounds are lowerApothem = ceil((minWidth+1)/2) and
\* upperApothem = floor(maxWidth/2) for all widths >= 4, so the list holds
\* the apothems between these two.
C4_AsStated ==
    (pc = "returned" /\ args.lowerWidth >= 4 /\ args.upperWidth >= 4) =>
        /\ lowerApothemOf(args.lowerWidth) = PyCeil(args.lowerWidth + 1, 2)
        /\ upperApothemOf(args.upperWidth) = PyFloor(args.upperWidth, 2)
        /\ ListedApothems =
              PyCeil(args.lowerWidth + 1, 2)..PyFloor(args.upperWidth, 2)

\* C4 amended: the bounds are lowerApothem = floor((minWidth+1)/2) and
\* upperApothem = floor(maxWidth/2) for all widths >= 4, and the list holds
\* the apothems between these two.
C4_Bounds ==
    (pc = "returned" /\ args.lowerWidth >= 4 /\ args.upperWidth >= 4) =>
        /\ lowerApothemOf(args.lowerWidth) = PyFloor(args.lowerWidth + 1, 2)
        /\ upperApothemOf(args.upperWidth) = PyFloor(args.upperWidth, 2)
        /\ ListedApothems =
              PyFloor(args.lowerWidth + 1, 2)..PyFloor(args.upperWidth, 2)

\* a search with an even minimal width, where rounding up and down differ
C4_Witness ==
    /\ pc = "returned"
    /\ args.lowerWidth >= 4
    /\ args.lowerWidth % 2 = 0
    /\ args.upperWidth > args.lowerWidth + 2
    /\ args.lowerWidth \div 2 \in ListedApothems


\* C5 as stated: every candidate run obtains from dialog values has an apothem
\* of at least 2, and its width 2 * apothem is even, at least 4 and inside
\* the range of widths handed to the search.
C5_AsStated ==
    Searched =>
        \A i \in 1..Len(sampleList) :
            LET width == 2 * sampleList[i].apothem
            IN  /\ sampleList[i].apothem >= 2
                /\ width >= 4
                /\ width >= norm.lowerWidth
                /\ width <= norm.upperWidth

\* C6: every candidate has a positive stretch and a misalignment that is not
\* negative, and that is zero only if 3 * apothem^2 is a perfect square; it is
\* in fact positive, so that 1 / delta and log10(|stretch - 1|) are defined.
C6_Defined ==
    /\ Searched =>
          \A i \in 1..Len(sampleList) :
              LET c == sampleList[i]
              IN  /\ QSign(c.apoStretch) > 0
                  /\ QSign(c.delta) >= 0
                  /\ QSign(c.delta) = 0 =>
                        \E t \in 0..(2 * c.apothem) :
                            t * t = 3 * c.apothem * c.apothem
                  /\ QSign(c.delta) > 0
                  /\ QEq(c.delta, Misalignment(c.apothem))
                  /\ "error" \notin DOMAIN c.quality
                  /\ QSign(c.quality) > 0
                  /\ ~Log10Fails(QMulInt(100, QSubInt(c.apoStretch, 1)))
    /\ build.returned # "ValueError"

\* a grid was drawn after a search that met stretches above and below one
C6_Witness ==
    /\ pc = "done"
    /\ build.returned = "None"
    /\ \E i, j \in 1..Len(sampleList) :
          /\ QSign(QSubInt(sampleList[i].apoStretch, 1)) > 0
          /\ QSign(QSubInt(sampleList[j].apoStretch, 1)) < 0

-----------------------------------------------------------------------------
(* Properties of the square packer *)

\* min(x / c1, y / r1) <= min(x / c2, y / r2)
CellLeq(x, y, r1, c1, r2, c2) ==
    /\ c2 <= c1 \/ y * c2 <= x * r1
    /\ x * r2 <= y * c1 \/ r2 <= r1

\* C7: squareFill returns at least one row and one column, at least n cells,
\* cellSize = trunc(min(x / cols, y / rows)), and the cells overshoot the
\* canvas by no more than one pixel in either direction.
C7_FillCovers ==
    pc = "returned" =>
        /\ fill.nrows >= 1
        /\ fill.ncols >= 1
        /\ fill.nrows * fill.ncols >= args.n
        /\ fill.cellSize = PyMin(args.x \div fill.ncols, args.y \div fill.nrows)
        /\ fill.cellSize * fill.ncols <= args.x + 1
        /\ fill.cellSize * fill.nrows <= args.y + 1

\* a tiling with several rows and columns and more cells than asked for
C7_Witness ==
    /\ pc = "returned"
    /\ fill.nrows >= 2
    /\ fill.ncols >= 2
    /\ fill.nrows * fill.ncols > args.n
    /\ fill.cellSize >= 2

\* C8: no tiling of at least n cells has a larger cell than the returned one,
\* and when the height-filling and the width-filling options have the same
\* cell size the width-filling one, with no fewer columns, is returned.
C8_Maximal ==
    pc = "returned" =>
        /\ \A r, c \in 1..args.n :
              r * c >= args.n =>
                  CellLeq(args.x, args.y, r, c, fill.nrows, fill.ncols)
        /\ LET opt1 == FillHeight(args.x, args.y, args.n)
               opt2 == FillWidth(args.x, args.y, args.n)
           IN  args.y * opt2.ncols = args.x * opt1.nrows =>
                  /\ fill.nrows = opt2.nrows
                  /\ fill.ncols = opt2.ncols
                  /\ fill.ncols >= opt1.ncols

\* a tie between two different options, resolved for the one with more columns
C8_Witness ==
    /\ pc = "returned"
    /\ LET opt1 == FillHeight(args.x, args.y, args.n)
           opt2 == FillWidth(args.x, args.y, args.n)
       IN  /\ args.y * opt2.ncols = args.x * opt1.nrows
           /\ opt2.ncols > opt1.ncols
           /\ fill.ncols = opt2.ncols

-----------------------------------------------------------------------------
(* Properties of the layout *)

\* a step of run that calls buildHexagons
BuildStep ==
    \/ pc = "create" /\ ~norm.createSampleSheet /\ pc' = "done"
    \/ pc = "samples" /\ iSample' = iSample + 1

\* C9: a call of buildHexagons that computes a zero row or column count
\* returns False and leaves no layer, path, stroke, grid setting or label.
C9_NoPartialLayout ==
    [][(BuildStep /\ (build'.countX = 0 \/ build'.countY = 0)) =>
          /\ build'.returned = "False"
          /\ build'.hexagons = <<>>
          /\ build'.layer = NoLayer
          /\ image'.layers = image.layers
          /\ image'.paths = image.paths
          /\ image'.stroked = image.stroked
          /\ image'.grid = image.grid
          /\ image'.texts = image.texts
          /\ image'.messages = image.messages + 1]_vars

\* a grid asked for on a new layer, stroked, with path and image grid, on a
\* canvas too small for one hexagon: nothing but the message
C9_Witness ==
    /\ HexgridDrawn
    /\ args.createLayer /\ args.strokePath /\ args.keepPaths /\ args.adjustGrid
    /\ build.countY = 0
    /\ build.returned = "False"
    /\ image.layers = <<>>
    /\ image.messages = 1

\* C10 as stated: a call of buildHexagons that does not give up for lack of
\* room has at least one row and one column.
C10_AsStated ==
    build.returned = "None" => build.countX >= 1 /\ build.countY >= 1


\* buildHexagons has been called and build holds what it computed
BuildCalled == build.returned \in {"None", "False", "ValueError"}

\* the margins the counts are computed with (a sample draws them in)
EffMarginX ==
    IF build.call.isSample
    THEN build.call.marginX - (3 * build.call.apothem) \div 2
    ELSE build.call.marginX

EffMarginY ==
    IF build.call.isSample
    THEN build.call.marginY - (3 * build.call.apothem) \div 2
    ELSE build.call.marginY

\* numerator and denominator of (dimY - 2*marginY - separation/3) / separation
RowNum == 3 * (build.call.dimY - 2 * EffMarginY) - build.call.separation

RowDen == 3 * build.call.separation

\* n / d rounded toward zero, d > 0
TruncDiv(n, d) == IF n >= 0 THEN n \div d ELSE -((-n) \div d)

\* C11 as stated: rowCount = floor((canvasHeight - 2*marginY - separation/3)
\* / separation), and colCount = floor((canvasWidth - 2*marginX - apothem)
\* / (2*apothem)) when rowCount > 1, floor((canvasWidth - 2*marginX)
\* / (2*apothem)) otherwise.
C11_AsStated ==
    BuildCalled =>
        LET rowCount == RowNum \div RowDen
            width == build.call.dimX - 2 * EffMarginX
        IN  /\ build.countY = rowCount
            /\ build.countX =
                  IF rowCount > 1
                  THEN (width - build.call.apothem) \div (2 * build.call.apothem)
                  ELSE width \div (2 * build.call.apothem)

\* C11 amended: the same quotients rounded toward zero instead of down (the
\* two agree when the quotient is not negative).
C11_Counts ==
    BuildCalled =>
        LET rowCount == TruncDiv(RowNum, RowDen)
            width == build.call.dimX - 2 * EffMarginX
        IN  /\ build.countY = rowCount
            /\ build.countX =
                  IF rowCount > 1
                  THEN TruncDiv(width - build.call.apothem,
                                2 * build.call.apothem)
                  ELSE TruncDiv(width, 2 * build.call.apothem)

\* a call whose row quotient lies strictly between -1 and 0: the count is 0
C11_Witness ==
    /\ BuildCalled
    /\ RowNum < 0
    /\ -RowNum < RowDen
    /\ build.countY = 0

-----------------------------------------------------------------------------
(* Properties of the hexagon field *)

\* a centre or vertex in the virtual axes: x and y exchanged when vertical
Canonical(point) ==
    IF build.direction = "horizontal" THEN point
    ELSE [x |-> point.y, y |-> point.x]

\* the call draws straight on the canvas: no layer offset, no cell offset
ZeroOffsets ==
    /\ build.call.baseLayerOffsetX = 0
    /\ build.call.baseLayerOffsetY = 0
    /\ build.call.offsetXprime = 0
    /\ build.call.offsetYprime = 0

\* every centre lies in the canvas shrunk by the margins, virtual axes
CentersInsideMargins ==
    \A k \in 1..Len(build.hexagons) :
        LET c == Canonical(build.hexagons[k])
        IN  /\ QLeq(Q3(EffMarginX, 0, 1), c.x)
            /\ QLeq(c.x, Q3(build.call.dimX - EffMarginX, 0, 1))
            /\ QLeq(Q3(EffMarginY, 0, 1), c.y)
            /\ QLeq(c.y, Q3(build.call.dimY - EffMarginY, 0, 1))

\* C12 as stated: every layout that does not fail has rowCount*colCount
\* hexagons and, with margins >= 0 and no offset, every centre within
\* [marginX, canvasWidth - marginX] x [marginY, canvasHeight - marginY].
C12_AsStated ==
    build.returned = "None" =>
        /\ Len(build.hexagons) = build.countX * build.countY
        /\ (EffMarginX >= 0 /\ EffMarginY >= 0 /\ ZeroOffsets)
              => CentersInsideMargins

\* origin of the cell or layer the call draws in, virtual axes
OriginX ==
    build.call.baseLayerOffsetX
      + (IF build.direction = "horizontal"
         THEN build.call.offsetXprime ELSE build.call.offsetYprime)

OriginY ==
    build.call.baseLayerOffsetY
      + (IF build.direction = "horizontal"
         THEN build.call.offsetYprime ELSE build.call.offsetXprime)

\* C13 as stated: in every layout that does not fail the first-centre offset,
\* taken from the origin of the cell or layer, is
\* x = floor((canvasWidth - apothem*(2*colCount + (1 if rowCount > 1 else 0)))/2)
\* + halfPixelShift and y = floor((canvasHeight - separation*(rowCount-1))/2)
\* + halfPixelShift.
C13_AsStated ==
    build.returned = "None" =>
        LET stagger == IF build.countY > 1 THEN 1 ELSE 0
            spanX == build.apothem * (2 * build.countX + stagger)
            spanY == build.separation * (build.countY - 1)
        IN  /\ QEq(QSubInt(build.pathOffset.x, OriginX),
                   QAddInt(build.call.halfPixel,
                           (build.call.dimX - spanX) \div 2))
            /\ QEq(QSubInt(build.pathOffset.y, OriginY),
                   QAddInt(build.call.halfPixel,
                           (build.call.dimY - spanY) \div 2))

-----------------------------------------------------------------------------
(* Properties of the vertices *)

\* the six offsets of the horizontal hexagon as the claim lists them
HorizontalOffsets(apothem, radius) ==
    LET a == Q3(apothem, 0, 1)
        r == radius
        h == QDivInt(radius, 2)
        o == Q3(0, 0, 1)
    IN  <<<<o, QNeg(r)>>, <<a, QNeg(h)>>, <<a, h>>,
          <<o, r>>, <<QNeg(a), h>>, <<QNeg(a), QNeg(h)>>>>

\* C14: the i-th vertex offset of a vertical hexagon is the i-th offset of the
\* horizontal hexagon of the same apothem and radius with x and y exchanged,
\* the horizontal offsets being (0,-radius), (apothem,-radius/2),
\* (apothem,radius/2), (0,radius), (-apothem,radius/2), (-apothem,-radius/2).
C14_VerticalIsSwap ==
    build.returned = "None" =>
        LET h == HorizontalOffsets(build.call.apothem, build.call.radius)
        IN  \A i \in 1..6 :
                IF build.direction = "horizontal"
                THEN /\ QEq(build.vects[i].x, h[i][1])
                     /\ QEq(build.vects[i].y, h[i][2])
                ELSE /\ QEq(build.vects[i].x, h[i][2])
                     /\ QEq(build.vects[i].y, h[i][1])

\* a vertical field has been drawn
C14_Witness ==
    /\ build.returned = "None"
    /\ build.direction = "vertical"
    /\ Len(build.strokes) >= 1
    /\ build.call.apothem >= 2

\* a coordinate of a vertex is a whole number of twelfths of a pixel
OnTwelfths(x) == x.q = 0 /\ (12 * x.p) % x.d = 0

Twelfths(x) == (12 * x.p) \div x.d

\* twice the signed area of the hexagon through the six points, in 1/144 px2;
\* positive when the points turn clockwise on the screen (y grows downwards)
SignedArea(points) ==
    LET X(i) == Twelfths(points[i].x)
        Y(i) == Twelfths(points[i].y)
        Term(i) == X(i) * Y((i % 6) + 1) - X((i % 6) + 1) * Y(i)
    IN  Term(1) + Term(2) + Term(3) + Term(4) + Term(5) + Term(6)

\* C15 as stated: the vertices of every hexagon, vertical or horizontal, turn
\* clockwise (positive signed area), the same way in both orientations.
C15_AsStated ==
    build.returned = "None" =>
        \A k \in 1..Len(build.strokes) : SignedArea(build.strokes[k]) > 0

\* C15 amended: the vertices of a horizontal hexagon turn clockwise, those of a
\* vertical hexagon counter-clockwise (exchanging x and y reverses the turn),
\* and all hexagons of one plan turn the same way.
C15_Winding ==
    build.returned = "None" =>
        /\ \A k \in 1..Len(build.strokes) :
              /\ \A i \in 1..6 : /\ OnTwelfths(build.strokes[k][i].x)
                                 /\ OnTwelfths(build.strokes[k][i].y)
              /\ build.direction = "horizontal"
                    => SignedArea(build.strokes[k]) > 0
              /\ build.direction = "vertical"
                    => SignedArea(build.strokes[k]) < 0
        /\ \A k, l \in 1..Len(build.strokes) :
              SignedArea(build.strokes[k]) > 0
                 <=> SignedArea(build.strokes[l]) > 0

\* a vertical plan of several hexagons, on two rows at least
C15_Witness ==
    /\ build.returned = "None"
    /\ build.direction = "vertical"
    /\ build.countY >= 2
    /\ Len(build.strokes) >= 4

-----------------------------------------------------------------------------
(* Properties of the cropped layer *)

\* size of the layer created by the call, in the virtual axes
LayerSizeX ==
    IF build.direction = "horizontal"
    THEN build.layer.width ELSE build.layer.height

LayerSizeY ==
    IF build.direction = "horizontal"
    THEN build.layer.height ELSE build.layer.width

\* a field with hexagons has been drawn on a layer cropped to it
CroppedField ==
    /\ build.returned = "None"
    /\ build.call.createLayer
    /\ build.call.cropLayer
    /\ ~build.call.isSample
    /\ build.countX >= 1
    /\ build.countY >= 1

-----------------------------------------------------------------------------
(* Properties of the half pixel *)

\* x is a whole number
IsWhole(x) == x.q = 0 /\ x.p % x.d = 0

\* x is a whole number plus 0.5
IsWholePlusHalf(x) == x.q = 0 /\ (2 * x.p) % x.d = 0 /\ x.p % x.d # 0

\* x sits where a stroke of that width is sharp
OnStrokeGrid(x, strokeWidth) ==
    IF strokeWidth % 2 = 1 THEN IsWholePlusHalf(x) ELSE IsWhole(x)

\* C17: with an odd strokeWidth every coordinate of every hexagon centre and
\* of the image-grid offset is an integer plus 0.5, with an even strokeWidth
\* they are all integers, in both orientations, for a grid and for a sample.
C17_HalfPixelByParity ==
    /\ build.returned = "None" =>
          \A k \in 1..Len(build.hexagons) :
              /\ OnStrokeGrid(build.hexagons[k].x, build.call.strokeWidth)
              /\ OnStrokeGrid(build.hexagons[k].y, build.call.strokeWidth)
    /\ \A i \in 1..Len(image.grid.offset) :
          OnStrokeGrid(image.grid.offset[i], args.strokeWidth)

\* hexagons drawn with an odd stroke width and the image grid set on them
C17_Witness ==
    /\ build.returned = "None"
    /\ build.call.strokeWidth % 2 = 1
    /\ build.direction = "vertical"
    /\ Len(build.hexagons) >= 2
    /\ Len(image.grid.offset) = 2

-----------------------------------------------------------------------------
(* Properties of the orientation *)

\* the dialog values of the horizontal layout on the transposed canvas
Transposed(c) ==
    [c EXCEPT !.orientation = "horizontal",
              !.imageWidth = c.imageHeight, !.imageHeight = c.imageWidth,
              !.layerWidth = c.layerHeight, !.layerHeight = c.layerWidth,
              !.layerOffX = c.layerOffY, !.layerOffY = c.layerOffX,
              !.marginXprime = c.marginYprime, !.marginYprime = c.marginXprime]

\* what run draws for the transposed dialog values (sampleList not empty)
TransposedGrid ==
    LET c == Transposed(args)
        n == Prepare(c)
        list == sampleSearch(n.lowerWidth, n.upperWidth)
    IN  buildHexagons(BuildArgs(c, n, list[1], n.imageX, n.imageY, 0, 0, FALSE))

\* the horizontal sample in the cell of exchanged row and column
TransposedSample ==
    buildHexagons([build.call EXCEPT !.direction = "horizontal",
                                     !.offsetXprime = build.call.offsetYprime,
                                     !.offsetYprime = build.call.offsetXprime])

\* the points p and q are each other's image under the exchange of x and y
Swapped(p, q) == QEq(p.x, q.y) /\ QEq(p.y, q.x)

\* the layout t is the layout of build with x and y exchanged
AxisSwapOf(t) ==
    /\ build.returned = t.returned
    /\ build.countX = t.countX
    /\ build.countY = t.countY
    /\ build.apothem = t.apothem
    /\ build.separation = t.separation
    /\ Len(build.hexagons) = Len(t.hexagons)
    /\ \A k \in 1..Len(build.hexagons) :
          /\ Swapped(build.hexagons[k], t.hexagons[k])
          /\ \A v \in 1..6 : Swapped(build.strokes[k][v], t.strokes[k][v])

\* C18: a vertical layout on a canvas W x H with margins (mA, mB) has the row
\* and column counts and the candidate of the horizontal layout on the canvas
\* H x W with margins (mB, mA), and its centres and vertices are those of the
\* horizontal layout with x and y exchanged.
C18_PureAxisSwap ==
    /\ (HexgridDrawn /\ build.direction = "vertical")
          => AxisSwapOf(TransposedGrid)
    /\ (BuildCalled /\ build.isSample /\ build.direction = "vertical")
          => AxisSwapOf(TransposedSample)

\* a vertical grid of several rows on a canvas that is not square, with
\* different margins
C18_Witness ==
    /\ HexgridDrawn
    /\ build.direction = "vertical"
    /\ build.returned = "None"
    /\ build.call.dimX # build.call.dimY
    /\ build.call.marginX # build.call.marginY
    /\ build.countY >= 2
    /\ build.countX >= 2

-----------------------------------------------------------------------------
(* Properties of the normalised dialog values *)

\* C19: after run has normalised the dialog values, lowerWidth <= upperWidth
\* and both are even, the list of candidates has exactly
\* (upperWidth - lowerWidth)/2 + 1 >= 1 elements, the capped sampleCount is at
\* most that length, and no index of sampleList is out of range.
C19_ListCoversCount ==
    /\ pc # "IndexError"
    /\ Searched =>
          /\ norm.lowerWidth <= norm.upperWidth
          /\ norm.lowerWidth % 2 = 0
          /\ norm.upperWidth % 2 = 0
          /\ Len(sampleList) = (norm.upperWidth - norm.lowerWidth) \div 2 + 1
          /\ Len(sampleList) >= 1
          /\ norm.sampleCount >= 1
          /\ norm.sampleCount <= Len(sampleList)
          /\ norm.createSampleSheet /\ pc # "create"
                => Len(curatedSampleList) = norm.sampleCount

\* a sheet asked for more samples than the swapped, odd bounds give
C19_Witness ==
    /\ pc = "done"
    /\ norm.createSampleSheet
    /\ args.upperWidth # 0
    /\ args.upperWidth < args.lowerWidth
    /\ args.upperWidth % 2 = 1
    /\ args.sampleCount > Len(sampleList)
    /\ Len(sampleList) >= 2

-----------------------------------------------------------------------------
(* Properties of the samples sheet *)

\* run is drawing a samples sheet, or has drawn it
OnSheet == norm.createSampleSheet /\ pc \in {"samples", "done"}

\* number of samples the sheet is to show
SheetCount ==
    IF args.sampleCount <= Len(sampleList)
    THEN args.sampleCount ELSE Len(sampleList)

\* the samples of the sheet are SheetCount candidates of the search, none of
\* them worse than a candidate left out, in ascending order of apothem
SheetSelection ==
    LET chosen == {curatedSampleList[i].apothem :
                      i \in 1..Len(curatedSampleList)}
        listed == {sampleList[i].apothem : i \in 1..Len(sampleList)}
    IN  /\ Len(curatedSampleList) = SheetCount
        /\ chosen \subseteq listed
        /\ \A a \in chosen : \A other \in listed \ chosen :
              QLeq(Misalignment(a), Misalignment(other))
        /\ \A i, j \in 1..Len(curatedSampleList) :
              i < j => curatedSampleList[i].apothem
                          < curatedSampleList[j].apothem

\* row and column of the i-th sample, i counted from 0
CellRow(i) == i \div fill.ncols

CellCol(i) == i % fill.ncols

\* the cells of the samples are distinct cells of the nrows x ncols grid and
\* lie inside the image; the latest sample was built for its own cell
SheetPlacement ==
    /\ \A i \in 0..(SheetCount - 1) :
          /\ CellRow(i) < fill.nrows
          /\ CellCol(i) < fill.ncols
          /\ (CellCol(i) + 1) * fill.cellSize <= args.imageWidth
          /\ (CellRow(i) + 1) * fill.cellSize <= args.imageHeight
          /\ \A j \in 0..(SheetCount - 1) :
                (CellRow(i) = CellRow(j) /\ CellCol(i) = CellCol(j)) => i = j
    /\ iSample >= 1 =>
          /\ build.isSample
          /\ build.apothem = curatedSampleList[iSample].apothem
          /\ build.call.dimX = fill.cellSize
          /\ build.call.dimY = fill.cellSize
          /\ build.call.offsetXprime = CellCol(iSample - 1) * fill.cellSize
          /\ build.call.offsetYprime = CellRow(iSample - 1) * fill.cellSize

\* a sample that buildHexagons went through with has its layer, of the size
\* of the cell and at the place of the cell, and its label
LatestSampleShown ==
    (iSample >= 1 /\ build.returned = "None") =>
        /\ image.layers[Len(image.layers)] =
              [kind |-> "hexagons",
               width |-> fill.cellSize, height |-> fill.cellSize,
               offX |-> CellCol(iSample - 1) * fill.cellSize,
               offY |-> CellRow(iSample - 1) * fill.cellSize]
        /\ image.texts[Len(image.texts)].width = 2 * build.apothem

-----------------------------------------------------------------------------
(* Properties of the tiling *)

\* the emitted vertex v of the hexagon of row i and column j (from 0)
Vertex(i, j, v) == build.emitted[i * build.countX + j + 1][v]

\* the pairs of vertices two neighbours of the same row share: vertices B and
\* C of the hexagon of column j are vertices F and E of the one of column j+1
RowPairs ==
    {<<Vertex(i, j, w[1]), Vertex(i, j + 1, w[2])>> :
        i \in 0..(build.countY - 1), j \in 0..(build.countX - 2),
        w \in {<<2, 6>>, <<3, 5>>}}

\* the pairs of vertices a hexagon of row i shares with its lower-right
\* neighbour (C and D are its A and F) ...
LowerRightPairs ==
    UNION {IF j + (i % 2) <= build.countX - 1
           THEN {<<Vertex(i, j, 3), Vertex(i + 1, j + (i % 2), 1)>>,
                 <<Vertex(i, j, 4), Vertex(i + 1, j + (i % 2), 6)>>}
           ELSE {} :
           i \in 0..(build.countY - 2), j \in 0..(build.countX - 1)}

\* ... and with its lower-left neighbour (D and E are its B and A)
LowerLeftPairs ==
    UNION {IF j + (i % 2) >= 1
           THEN {<<Vertex(i, j, 4), Vertex(i + 1, j + (i % 2) - 1, 2)>>,
                 <<Vertex(i, j, 5), Vertex(i + 1, j + (i % 2) - 1, 1)>>}
           ELSE {} :
           i \in 0..(build.countY - 2), j \in 0..(build.countX - 1)}

\* a plan with hexagons has been drawn
PlanDrawn ==
    build.returned = "None" /\ build.countX >= 1 /\ build.countY >= 1

\* the doubles x and y are the same number
SameDouble(x, y) == x.n = y.n /\ x.err = y.err /\ x.k = y.k

\* the doubles x and y round the same number and differ by one unit in the
\* last place of the radius at most, or of x and y where that unit is greater
CloseDoubles(x, y) ==
    LET kr == DoubleRadius(build.call.radius).k
        units == IF x.k > kr THEN Pow2(x.k - kr) ELSE 1
    IN  /\ x.n = y.n
        /\ x.k = y.k
        /\ x.err - y.err <= 3 * units
        /\ y.err - x.err <= 3 * units

\* C21 as stated: the two vertices that neighbouring hexagons of a plan share
\* (same row, or consecutive rows) have exactly identical coordinates.
C21_AsStated ==
    PlanDrawn =>
        \A pair \in RowPairs \cup LowerRightPairs \cup LowerLeftPairs :
            /\ SameDouble(pair[1].x, pair[2].x)
            /\ SameDouble(pair[1].y, pair[2].y)

\* C21 amended: the vertices shared by neighbours of the same row have
\* identical coordinates; those shared by neighbours of consecutive rows are
\* the same point in exact arithmetic, and their emitted coordinates differ by
\* one unit in the last place of the radius or of the coordinate at most.
C21_Tiling ==
    PlanDrawn =>
        /\ \A pair \in RowPairs :
              /\ SameDouble(pair[1].x, pair[2].x)
              /\ SameDouble(pair[1].y, pair[2].y)
        /\ \A pair \in LowerRightPairs \cup LowerLeftPairs :
              /\ CloseDoubles(pair[1].x, pair[2].x)
              /\ CloseDoubles(pair[1].y, pair[2].y)

\* a plan of several rows and columns of hexagons at least 4 px wide in which
\* a vertex shared between two rows is emitted with two different doubles
C21_Witness ==
    /\ PlanDrawn
    /\ build.countX >= 2
    /\ build.countY >= 3
    /\ build.apothem >= 2
    /\ \E pair \in LowerRightPairs \cup LowerLeftPairs :
          ~(SameDouble(pair[1].x, pair[2].x) /\ SameDouble(pair[1].y, pair[2].y))

====
